---- MODULE Spec2Model ----
(***************************************************************************)
(* AlphaTrade: one decision cycle of trader.main, with the allocation      *)
(* proposal of llm_policy.choose_portfolio, the risk weights of            *)
(* strategy.risk_weights_for and the broker calls of alpaca_client.        *)
(*                                                                         *)
(* Python floats are modelled as exact rationals [n, d] (d > 0, lowest     *)
(* terms); binary rounding error is not modelled.                          *)
(***************************************************************************)
EXTENDS Integers, Sequences, FiniteSets, TLC

(***************************************************************************)
(* Exact rational arithmetic.                                              *)
(***************************************************************************)
RECURSIVE GCD(_, _)
GCD(a, b) == IF b = 0 THEN a ELSE GCD(b, a % b)

IAbs(i) == IF i < 0 THEN -i ELSE i

Rat(n, d) ==
    LET s == IF d < 0 THEN -1 ELSE 1
        g == GCD(IAbs(n), IAbs(d))
    IN  [n |-> (s * n) \div g, d |-> (s * d) \div g]

Zero == Rat(0, 1)
One == Rat(1, 1)
RInt(i) == Rat(i, 1)

RAdd(x, y) ==
    LET g == GCD(x.d, y.d)
    IN  Rat(x.n * (y.d \div g) + y.n * (x.d \div g), (x.d \div g) * y.d)
RSub(x, y) ==
    LET g == GCD(x.d, y.d)
    IN  Rat(x.n * (y.d \div g) - y.n * (x.d \div g), (x.d \div g) * y.d)
RMul(x, y) == Rat(x.n * y.n, x.d * y.d)
RDiv(x, y) == Rat(x.n * y.d, x.d * y.n)
RLt(x, y) == x.n * y.d < y.n * x.d
RLe(x, y) == x.n * y.d <= y.n * x.d
REq(x, y) == x.n * y.d = y.n * x.d
RMin(x, y) == IF RLe(x, y) THEN x ELSE y
RMax(x, y) == IF RLe(x, y) THEN y ELSE x
RAbs(x) == Rat(IAbs(x.n), x.d)
\* int(x) of a non-negative float: truncation
RTrunc(x) == x.n \div x.d

RECURSIVE RSumSeq(_)
RSumSeq(s) == IF s = << >> THEN Zero ELSE RAdd(Head(s), RSumSeq(Tail(s)))

\* the sequence s with the elements failing Keep removed
RECURSIVE SelectSyms(_, _)
SelectSyms(s, keep) ==
    IF s = << >> THEN << >>
    ELSE IF Head(s) \in keep THEN << Head(s) >> \o SelectSyms(Tail(s), keep)
         ELSE SelectSyms(Tail(s), keep)

\* the distinct elements of s in order of first occurrence (dict key order)
RECURSIVE KeyOrder(_)
KeyOrder(s) ==
    IF s = << >> THEN << >>
    ELSE << Head(s) >> \o SelectSyms(KeyOrder(Tail(s)), { x \in { s[i] : i \in DOMAIN s } : x # Head(s) })

SeqRange(s) == { s[i] : i \in DOMAIN s }

\* sum of f[k] over the keys of the sequence ks
RECURSIVE RSumOver(_, _)
RSumOver(f, ks) == IF ks = << >> THEN Zero ELSE RAdd(f[Head(ks)], RSumOver(f, Tail(ks)))

\* a set as a sequence, in some fixed order
RECURSIVE SetToSeq(_)
SetToSeq(S) == IF S = {} THEN << >> ELSE LET x == CHOOSE y \in S : TRUE IN << x >> \o SetToSeq(S \ {x})

(***************************************************************************)
(* Domains of the inputs.                                                  *)
(***************************************************************************)
\* longest list of picks an allocation response carries in a cycle
MaxPicks == 2

\* failing calls (raised exceptions) the environment produces in one cycle
MaxFaults == 1

\* open orders resting at the broker when a cycle starts
MaxStale == 1

Symbols == {"SPY", "XLK"}

\* weights the allocation responses of a cycle carry
CycleWeights == {Rat(3, 10), Rat(9, 10)}

PickSet(weights) == [symbol : Symbols, weight : weights]

RECURSIVE SeqsUpTo(_, _)
SeqsUpTo(S, k) ==
    IF k = 0 THEN {<< >>}
    ELSE LET shorter == SeqsUpTo(S, k - 1)
         IN  shorter \union { Append(q, x) : q \in { r \in shorter : Len(r) = k - 1 }, x \in S }

\* response texts of the allocation service: wellformed FALSE is any text
\* that PolicyResponse.model_validate_json rejects (also the "{}" fallback)
Contents(weights, max_len) ==
    { [wellformed |-> FALSE, picks |-> << >>, confidence |-> Rat(1, 2)] }
    \union [wellformed : {TRUE}, picks : SeqsUpTo(PickSet(weights), max_len), confidence : {Rat(1, 2)}]

\* weights an allocation response may carry (pydantic checks the type only)
PropWeights == {Rat(-9, 10), Zero, Rat(3, 10), Rat(9, 10)}

\* longest list of picks of a response in the weight pipeline taken alone
MaxPolicyPicks == 3

\* rows of the scored feature panel
FeatRows ==
    { [score |-> Rat(1, 1), vol20_annual |-> Rat(1, 5), trend |-> Rat(1, 20), last |-> Rat(50, 1)],
      [score |-> Rat(-1, 1), vol20_annual |-> Zero, trend |-> Rat(-1, 50), last |-> Zero] }

\* the scored panels: a row for some of the symbols
Panels == UNION { [D -> FeatRows] : D \in SUBSET Symbols }

WideFeatRows ==
    FeatRows \union
    { [score |-> Rat(1, 1), vol20_annual |-> Rat(1, 2), trend |-> Rat(-1, 50), last |-> Rat(30, 1)],
      [score |-> Rat(1, 2), vol20_annual |-> Zero, trend |-> Rat(1, 20), last |-> Rat(50, 1)] }

WidePanels == UNION { [D -> WideFeatRows] : D \in SUBSET Symbols }

(***************************************************************************)
(* llm_policy.choose_portfolio                                             *)
(***************************************************************************)
PickWeights(picks) == [i \in DOMAIN picks |-> picks[i].weight]

\* variant: the except branch falls back to a default pick, not to no pick
ModelValidate_DefaultPick(content) ==
    IF content.wellformed
    THEN [picks |-> content.picks, notes |-> "", confidence |-> content.confidence]
    ELSE [picks |-> << [symbol |-> "SPY", weight |-> Rat(3, 10)] >>,
          notes |-> "ValidationError", confidence |-> Zero]

\* PolicyResponse.model_validate_json, with the fallback of its except branch
ModelValidate(content) ==
    IF content.wellformed
    THEN [picks |-> content.picks, notes |-> "", confidence |-> content.confidence]
    ELSE [picks |-> << >>, notes |-> "ValidationError", confidence |-> Zero]

\* tw = sum(weights); if tw > 1: weight /= tw
NormalizePicks(picks) ==
    LET tw == RSumSeq(PickWeights(picks))
    IN  IF RLt(One, tw) /\ RLt(Zero, tw)
        THEN [i \in DOMAIN picks |-> [picks[i] EXCEPT !.weight = RDiv(picks[i].weight, tw)]]
        ELSE picks

\* weight = min(max(weight, 0), max_weight)
ClampPicks(picks, max_weight) ==
    [i \in DOMAIN picks |-> [picks[i] EXCEPT !.weight = RMin(RMax(picks[i].weight, Zero), max_weight)]]

choose_portfolio(content, max_weight) ==
    LET parsed == ModelValidate(content)
    IN  [parsed EXCEPT !.picks = ClampPicks(NormalizePicks(parsed.picks), max_weight)]

(***************************************************************************)
(* strategy.risk_weights_for.  A dict is [keys: sequence in insertion      *)
(* order, val: function on the keys].                                      *)
(***************************************************************************)
EmptyMap == [k \in {} |-> Zero]

EmptyDict == [keys |-> << >>, val |-> EmptyMap]

PickSymbols(picks) == [i \in DOMAIN picks |-> picks[i].symbol]

RawAffinity(row) ==
    LET score == RMax(row.score, Zero)
        vol == IF RLt(Zero, row.vol20_annual) THEN row.vol20_annual ELSE Rat(1, 10000)
    IN  RDiv(score, vol)

\* sorted(w.items(), key=value, reverse=True): stable, descending
RECURSIVE InsertDesc(_, _, _)
InsertDesc(k, sorted, w) ==
    IF sorted = << >> THEN << k >>
    ELSE IF RLt(w[Head(sorted)], w[k]) THEN << k >> \o sorted
         ELSE << Head(sorted) >> \o InsertDesc(k, Tail(sorted), w)

RECURSIVE SortDesc(_, _, _)
SortDesc(ks, acc, w) ==
    IF ks = << >> THEN acc ELSE SortDesc(Tail(ks), InsertDesc(Head(ks), acc, w), w)

\* the greedy loop over the sorted items; returns the allocated pairs
RECURSIVE Greedy(_, _, _, _)
Greedy(ks, w, max_weight, residual) ==
    IF ks = << >> THEN << >>
    ELSE LET a == RMin(RMin(w[Head(ks)], max_weight), residual)
             rest == RSub(residual, a)
         IN  << [k |-> Head(ks), a |-> a] >>
             \o (IF RLe(rest, Rat(1, 1000000)) THEN << >> ELSE Greedy(Tail(ks), w, max_weight, rest))

\* variant: the normalised affinities are not capped at max_weight
risk_weights_uncapped(picks, feats, max_weight) ==
    LET keys == KeyOrder(SelectSyms(PickSymbols(picks), DOMAIN feats))
        raw == [k \in SeqRange(keys) |-> RawAffinity(feats[k])]
        s == RSumOver(raw, keys)
    IN  IF keys = << >> \/ REq(s, Zero) THEN EmptyDict
        ELSE [keys |-> keys, val |-> [k \in SeqRange(keys) |-> RDiv(raw[k], s)]]

risk_weights_for(picks, feats, max_weight) ==
    LET keys == KeyOrder(SelectSyms(PickSymbols(picks), DOMAIN feats))
        raw == [k \in SeqRange(keys) |-> RawAffinity(feats[k])]
        s == RSumOver(raw, keys)
    IN  IF keys = << >> \/ REq(s, Zero) THEN EmptyDict
        ELSE LET w == [k \in SeqRange(keys) |-> RMin(max_weight, RDiv(raw[k], s))]
                 tw == RSumOver(w, keys)
             IN  IF RLt(One, tw)
                 THEN LET alloc == Greedy(SortDesc(keys, << >>, w), w, max_weight, One)
                      IN  [keys |-> [i \in DOMAIN alloc |-> alloc[i].k],
                           val |-> [k \in { alloc[i].k : i \in DOMAIN alloc } |->
                                      (CHOOSE p \in SeqRange(alloc) : p.k = k).a]]
                 ELSE [keys |-> keys, val |-> w]

(***************************************************************************)
(* trader.main: the helpers of one cycle                                   *)
(***************************************************************************)
\* the weight the dict comprehensions keep for sym: its last pick's
RECURSIVE LastWeight(_, _)
LastWeight(picks, sym) ==
    IF picks = << >> THEN Zero
    ELSE IF picks[Len(picks)].symbol = sym THEN picks[Len(picks)].weight
         ELSE LastWeight(SubSeq(picks, 1, Len(picks) - 1), sym)

Get(map, k, default) == IF k \in DOMAIN map THEN map[k] ELSE default

\* blend[sym] = min(MAX_WEIGHT, max(0, AIW*ai_w + (1-AIW)*risk_w)), then the
\* proportional shrink when the sum exceeds 1
BlendWeights(picks, risk_w, max_weight, AIW) ==
    LET syms == SeqRange(PickSymbols(picks)) \union SeqRange(risk_w.keys)
        mix == [sym \in syms |->
                  RMin(max_weight,
                       RMax(Zero, RAdd(RMul(AIW, LastWeight(picks, sym)),
                                       RMul(RSub(One, AIW), Get(risk_w.val, sym, Zero)))))]
        ssum == RSumOver(mix, SetToSeq(syms))
    IN  IF RLt(One, ssum) /\ RLt(Zero, ssum)
        THEN [sym \in syms |-> RDiv(mix[sym], ssum)]
        ELSE mix

\* new_picks: the picks whose blended weight is positive, re-weighted
RECURSIVE Reweigh(_, _)
Reweigh(picks, blend) ==
    IF picks = << >> THEN << >>
    ELSE LET p == Head(picks)
         IN  (IF p.symbol \in DOMAIN blend /\ RLt(Zero, blend[p.symbol])
              THEN << [p EXCEPT !.weight = blend[p.symbol]] >> ELSE << >>)
             \o Reweigh(Tail(picks), blend)

\* lines 141-158: the picks after the weighting postprocess
PostprocessPicks(picks, feats, settings) ==
    IF picks # << >> /\ settings.WEIGHTING_POSTPROCESS # "none"
    THEN LET risk_w == risk_weights_for(picks, feats, settings.MAX_WEIGHT)
         IN  IF risk_w.keys # << >>
             THEN Reweigh(picks, BlendWeights(picks, risk_w, settings.MAX_WEIGHT, settings.AI_WEIGHT))
             ELSE picks
    ELSE picks

\* compute_breadth: the share of scored symbols with trend > 0
compute_breadth(feats) ==
    IF DOMAIN feats = {} THEN Zero
    ELSE Rat(Cardinality({ k \in DOMAIN feats : RLt(Zero, feats[k].trend) }), Cardinality(DOMAIN feats))

\* spy_regime: the trend of the SPY row, 0 when there is none
spy_trend(feats) == IF "SPY" \in DOMAIN feats THEN feats["SPY"].trend ELSE Zero

InvestScalar(feats, settings) ==
    IF settings.REGIME_FILTER /\ (RLt(spy_trend(feats), Zero) \/ RLt(compute_breadth(feats), Rat(2, 5)))
    THEN settings.RISK_OFF_SCALAR
    ELSE One

\* _equity_fallback: the first positive of portfolio_value, equity, cash
equity_fallback(acct) ==
    IF RLt(Zero, acct.portfolio_value) THEN acct.portfolio_value
    ELSE IF RLt(Zero, acct.equity) THEN acct.equity
    ELSE IF RLt(Zero, acct.cash) THEN acct.cash
    ELSE Zero

\* is_market_open_now: open, and not within buffer_min minutes of the close
is_market_open_now(clk, buffer_min) ==
    clk.is_open /\ ~(buffer_min # 0 /\ clk.to_close <= buffer_min)

\* within_time_window_et on minutes of the Eastern day
within_time_window_et(now_min, windows, tol_min) ==
    \E i \in DOMAIN windows : IAbs(now_min - windows[i]) <= tol_min

\* targets = {symbol: investable * weight}
Targets(picks, investable) ==
    LET keys == KeyOrder(PickSymbols(picks))
    IN  [keys |-> keys, val |-> [sym \in SeqRange(keys) |-> RMul(investable, LastWeight(picks, sym))]]

MarketValue(positions, sym) == IF sym \in DOMAIN positions THEN positions[sym].market_value ELSE Zero

\* est_turnover: the sum of |tgt - cur| over positions and targets
EstTurnover(positions, targets) ==
    LET syms == DOMAIN positions \union SeqRange(targets.keys)
        d == [sym \in syms |-> RAbs(RSub(Get(targets.val, sym, Zero), MarketValue(positions, sym)))]
    IN  RSumOver(d, SetToSeq(syms))

CurInvested(positions) ==
    RSumOver([sym \in DOMAIN positions |-> positions[sym].market_value], SetToSeq(DOMAIN positions))

\* variant: the gate also ends the cycle at the limit itself (>= for >)
TurnoverGate_AtLimit(positions, targets, settings) ==
    LET cur_invested == CurInvested(positions)
    IN  /\ RLt(RMul(RInt(2), settings.MIN_ORDER_NOTIONAL), cur_invested)
        /\ RLt(Zero, cur_invested)
        /\ RLe(settings.TURNOVER_LIMIT, RDiv(EstTurnover(positions, targets), cur_invested))

\* lines 186-191: whether the turnover gate ends the cycle
TurnoverGate(positions, targets, settings) ==
    LET cur_invested == CurInvested(positions)
    IN  /\ RLt(RMul(RInt(2), settings.MIN_ORDER_NOTIONAL), cur_invested)
        /\ RLt(Zero, cur_invested)
        /\ RLt(settings.TURNOVER_LIMIT, RDiv(EstTurnover(positions, targets), cur_invested))

\* the symbols the order loop of lines 207-219 visits, in order
OrderLoopSymbols(targets, positions) == targets.keys

\* variant: the dust filter also drops a delta equal to the threshold
OrderFor_DustAtThreshold(sym, targets, positions, last_px, frac, settings) ==
    LET delta == RSub(Get(targets.val, sym, Zero), MarketValue(positions, sym))
        side == IF RLt(Zero, delta) THEN "buy" ELSE "sell"
        px0 == Get(last_px, sym, Zero)
        px == IF REq(px0, Zero) THEN One ELSE px0
        qty == RTrunc(RDiv(RAbs(delta), px))
    IN  IF RLe(RAbs(delta), settings.MIN_ORDER_NOTIONAL) THEN << >>
        ELSE IF sym \in frac
             THEN << [symbol |-> sym, side |-> side, kind |-> "notional", amount |-> RAbs(delta)] >>
             ELSE IF qty > 0
                  THEN << [symbol |-> sym, side |-> side, kind |-> "qty", amount |-> RInt(qty)] >>
                  ELSE << >>

\* variant: the share quantity is rounded to the nearest share
OrderFor_RoundNearest(sym, targets, positions, last_px, frac, settings) ==
    LET delta == RSub(Get(targets.val, sym, Zero), MarketValue(positions, sym))
        side == IF RLt(Zero, delta) THEN "buy" ELSE "sell"
        px0 == Get(last_px, sym, Zero)
        px == IF REq(px0, Zero) THEN One ELSE px0
        qty == RTrunc(RAdd(RDiv(RAbs(delta), px), Rat(1, 2)))
    IN  IF RLt(RAbs(delta), settings.MIN_ORDER_NOTIONAL) THEN << >>
        ELSE IF sym \in frac
             THEN << [symbol |-> sym, side |-> side, kind |-> "notional", amount |-> RAbs(delta)] >>
             ELSE IF qty > 0
                  THEN << [symbol |-> sym, side |-> side, kind |-> "qty", amount |-> RInt(qty)] >>
                  ELSE << >>

\* one pass of the order loop for sym: no order or one order
OrderFor(sym, targets, positions, last_px, frac, settings) ==
    LET delta == RSub(Get(targets.val, sym, Zero), MarketValue(positions, sym))
        side == IF RLt(Zero, delta) THEN "buy" ELSE "sell"
        px0 == Get(last_px, sym, Zero)
        px == IF REq(px0, Zero) THEN One ELSE px0
        qty == RTrunc(RDiv(RAbs(delta), px))
    IN  IF RLt(RAbs(delta), settings.MIN_ORDER_NOTIONAL) THEN << >>
        ELSE IF sym \in frac
             THEN << [symbol |-> sym, side |-> side, kind |-> "notional", amount |-> RAbs(delta)] >>
             ELSE IF qty > 0
                  THEN << [symbol |-> sym, side |-> side, kind |-> "qty", amount |-> RInt(qty)] >>
                  ELSE << >>

RECURSIVE BuildOrderList(_, _, _, _, _, _)
BuildOrderList(syms, targets, positions, last_px, frac, settings) ==
    IF syms = << >> THEN << >>
    ELSE OrderFor(Head(syms), targets, positions, last_px, frac, settings)
         \o BuildOrderList(Tail(syms), targets, positions, last_px, frac, settings)

\* round(notional, 2): to cents, ties to even
RoundCents(x) ==
    LET y == RMul(x, RInt(100))
        f == y.n \div y.d
        r == RSub(y, RInt(f))
    IN  IF RLt(Rat(1, 2), r) THEN Rat(f + 1, 100)
        ELSE IF RLt(r, Rat(1, 2)) THEN Rat(f, 100)
        ELSE IF f % 2 = 0 THEN Rat(f, 100) ELSE Rat(f + 1, 100)

\* the request submit_notional_order / submit_qty_order sends for an order
OrderRequest(od) ==
    IF od.kind = "notional" THEN [od EXCEPT !.amount = RoundCents(od.amount)] ELSE od

(***************************************************************************)
(* memory.insert_picks                                                     *)
(***************************************************************************)
\* the texts the server casts to a bigint, with their values
BigintTexts == ("1" :> 1) @@ ("2" :> 2) @@ ("3" :> 3)

\* lines 76-82: insert_picks(episode_id, picks) executes one INSERT for each
\* pick with p.get("symbol") as the first parameter, the value of column
\* episode_id (the argument episode_id is not used).  The server raises on
\* a text that is no bigint and on an id that table episodes does not
\* hold; the rows inserted before stay (autocommit, line 12)
RECURSIVE insert_picks(_, _, _, _)
insert_picks(ptable, table, episode_id, pks) ==
    IF pks = << >> THEN [rows |-> ptable, raised |-> FALSE]
    ELSE LET p == Head(pks)
         IN  IF p.symbol \notin DOMAIN BigintTexts
                \/ BigintTexts[p.symbol] \notin { table[i].id : i \in DOMAIN table }
             THEN [rows |-> ptable, raised |-> TRUE]
             ELSE insert_picks(Append(ptable, [episode_id |-> BigintTexts[p.symbol],
                                               symbol     |-> p.symbol,
                                               weight     |-> p.weight,
                                               rationale  |-> ""]),
                               table, episode_id, Tail(pks))

(***************************************************************************)
(* The state of one cycle and of the broker.                               *)
(***************************************************************************)
VARIABLES
    pc,                 \* the position of trader.main
    S,                  \* the settings snapshot of get_settings()
    total_portfolio,    \* line 77
    feats,              \* the scored panel (top)
    invest_scalar,      \* line 107-111
    rsp,                \* notes and confidence of choose_portfolio's result
    picks,              \* the picks, re-weighted by the postprocess
    risk_w,             \* line 144 (the empty map while not computed)
    episode_id,         \* 0 stands for None
    targets,            \* line 174
    positions,          \* line 176
    last_px,            \* the price map of lines 195-202
    fractionable,       \* line 205: the symbols list_fractionable maps to True
    orders,             \* line 206-219
    submitted_order_ids,\* line 235-240
    broker_orders,      \* the open orders at the broker
    cancel_calls,       \* calls of cancel_all_orders in this cycle
    submit_calls,       \* calls of submit_notional_order / submit_qty_order
    log,                \* events written by insert_log in this cycle
    failed,             \* the call whose exception left main, "" when none did
    faults,             \* calls that raised in this cycle
    episodes,           \* memory.py: the rows of table episodes, in insertion order
    picks_table,        \* memory.py: the rows of table picks
    cycle_picks,        \* per episode id, the picks its cycle handed to insert_picks
    mem_n,              \* the n of the last build_memory_context(n), 0 before any
    memctx,             \* the result of the last build_memory_context(n)
    bars,               \* strategy.py: the daily bars handed to compute_features
    out,                \* strategy.py line 35: the frame compute_features returns
    eastern,            \* scheduler.py line 50: the Eastern time of the loop's pass
    last_run_marker,    \* scheduler.py line 43: << >> stands for None
    runs,               \* the Eastern times at which the loop called run_trader
    failed_runs,        \* those of them at which run_trader raised
    sched_event         \* what the loop's last pass did

\* the state of a cycle
cycle_vars == << pc, S, total_portfolio, feats, invest_scalar, rsp, picks, risk_w, episode_id,
                 targets, positions, last_px, fractionable, orders, submitted_order_ids,
                 broker_orders, cancel_calls, submit_calls, log, failed, faults >>

\* the memory tables and the last recap built from them
memory_vars == << episodes, picks_table, cycle_picks, mem_n, memctx >>

\* the input and the output of the feature scorer
feature_vars == << bars, out >>

\* the state of the scheduler loop
scheduler_vars == << eastern, last_run_marker, runs, failed_runs, sched_event >>

\* what stands beside a cycle: a cycle is followed through its own variables,
\* its episode row through episode_id
beside_cycle == << memory_vars, feature_vars, scheduler_vars >>

vars == << cycle_vars, beside_cycle >>

\* no bar series handed over
EmptyBars == [sym \in {} |-> 0]

\* no recap built yet
NoContext == [text |-> "", lines |-> << >>]

\* midnight of the first day
Midnight == [date |-> 1, hh |-> 0, mm |-> 0, ss |-> 0]

\* empty tables, nothing scored, the scheduler not started
BesideIdle ==
    /\ episodes = << >>
    /\ picks_table = << >>
    /\ cycle_picks = << >>
    /\ mem_n = 0
    /\ memctx = NoContext
    /\ bars = EmptyBars
    /\ out = << >>
    /\ eastern = Midnight
    /\ last_run_marker = << >>
    /\ runs = {}
    /\ failed_runs = {}
    /\ sched_event = "start"

\* the calendar date of the cycle (Eastern)
Today == "2025-01-29"

\* the settings a cycle may read (DB rows over config.DEFAULTS); a setting
\* the cycle never reads under the others is held at one value
SettingsSet ==
    { st \in [ ENABLED_ : BOOLEAN,
               MAX_WEIGHT : {Rat(3, 5)},
               AI_WEIGHT : {Zero, Rat(1, 2)},
               WEIGHTING_POSTPROCESS : {"vol_target", "none"},
               DRY_RUN : BOOLEAN,
               USE_INTRADAY : BOOLEAN,
               REGIME_FILTER : {TRUE},
               RISK_OFF_SCALAR : {Rat(1, 2)},
               TARGET_POSITIONS : {2},
               TURNOVER_LIMIT : {Rat(1, 4)},
               MIN_ORDER_NOTIONAL : {RInt(5)},
               PORTFOLIO_CASH_BUFFER : {Zero},
               WINDOWS_ET : {<< 710, 875 >>},
               WINDOW_TOL_MIN : {30},
               AVOID_NEAR_OPEN_CLOSE_MIN : {10},
               MACRO_DATES : {{}, {Today}} ] :
        /\ (st.WEIGHTING_POSTPROCESS = "none" => st.AI_WEIGHT = Rat(1, 2))
        /\ (st.MACRO_DATES # {} => /\ st.ENABLED_
                                   /\ st.WEIGHTING_POSTPROCESS = "vol_target"
                                   /\ st.AI_WEIGHT = Rat(1, 2)
                                   /\ ~st.DRY_RUN
                                   /\ ~st.USE_INTRADAY)
        /\ (~st.ENABLED_ => /\ st.WEIGHTING_POSTPROCESS = "vol_target"
                            /\ st.AI_WEIGHT = Rat(1, 2)
                            /\ ~st.DRY_RUN
                            /\ ~st.USE_INTRADAY) }

\* the account snapshots get_account may return
Accounts ==
    { [portfolio_value |-> Zero, equity |-> Zero, cash |-> Zero],
      [portfolio_value |-> RInt(1000), equity |-> RInt(1000), cash |-> RInt(200)],
      [portfolio_value |-> Zero, equity |-> RInt(1000), cash |-> RInt(200)] }

Clocks == [is_open : BOOLEAN, to_close : {5, 120}]

\* Eastern minutes of the day at which a cycle may start
NowMinutes == {600, 680, 710, 740, 741}

PosRows == { [qty |-> RInt(8), market_value |-> RInt(400)],
             [qty |-> RInt(1), market_value |-> RInt(8)] }

PositionMaps == UNION { [D -> PosRows] : D \in SUBSET Symbols }

LivePrices == {RInt(52)}

PriceMaps == UNION { [D -> LivePrices] : D \in SUBSET Symbols }

StaleOrder == [symbol |-> "SPY", side |-> "buy", kind |-> "qty", amount |-> One, origin |-> "stale"]

RECURSIVE Repeat(_, _)
Repeat(x, k) == IF k = 0 THEN << >> ELSE << x >> \o Repeat(x, k - 1)

NoRsp == [notes |-> "", confidence |-> Zero]

NoSettings == CHOOSE x \in SettingsSet : ~x.ENABLED_

Init ==
    /\ BesideIdle
    /\ pc = "settings"
    /\ S = NoSettings
    /\ total_portfolio = Zero
    /\ feats = EmptyMap
    /\ invest_scalar = One
    /\ rsp = NoRsp
    /\ picks = << >>
    /\ risk_w = EmptyDict
    /\ episode_id = 0
    /\ targets = EmptyDict
    /\ positions = EmptyMap
    /\ last_px = EmptyMap
    /\ fractionable = {}
    /\ orders = << >>
    /\ submitted_order_ids = << >>
    /\ broker_orders = Repeat(StaleOrder, MaxStale)
    /\ cancel_calls = 0
    /\ submit_calls = 0
    /\ log = {}
    /\ failed = ""
    /\ faults = 0

\* no cycle under way: the variables of a cycle as main finds them, the
\* position at
NoCycle(at) ==
    /\ pc = at
    /\ S = NoSettings
    /\ total_portfolio = Zero
    /\ feats = EmptyMap
    /\ invest_scalar = One
    /\ rsp = NoRsp
    /\ picks = << >>
    /\ risk_w = EmptyDict
    /\ episode_id = 0
    /\ targets = EmptyDict
    /\ positions = EmptyMap
    /\ last_px = EmptyMap
    /\ fractionable = {}
    /\ orders = << >>
    /\ submitted_order_ids = << >>
    /\ broker_orders = Repeat(StaleOrder, MaxStale)
    /\ cancel_calls = 0
    /\ submit_calls = 0
    /\ log = {}
    /\ failed = ""
    /\ faults = 0

\* a return of main after insert_log(level, event)
Return(event) ==
    /\ pc' = "done"
    /\ log' = log \union {event}

\* an exception that leaves main
Raise(step) ==
    /\ faults < MaxFaults
    /\ faults' = faults + 1
    /\ pc' = "raised"
    /\ failed' = step

\* an exception that an except clause of main catches
Caught ==
    /\ faults < MaxFaults
    /\ faults' = faults + 1

\* lines 55-59: get_settings and the ENABLED gate
GetSettings ==
    /\ pc = "settings"
    /\ \E settings \in SettingsSet :
        /\ S' = settings
        /\ IF ~settings.ENABLED_
           THEN pc' = "done" /\ log' = log \union {"run_start", "disabled"}
           ELSE pc' = "market" /\ log' = log \union {"run_start"}
    /\ UNCHANGED << beside_cycle, total_portfolio, feats, invest_scalar, rsp, picks, risk_w, episode_id, targets,
                    positions, last_px, fractionable, orders, submitted_order_ids, broker_orders, cancel_calls,
                    submit_calls, failed, faults >>

\* lines 61-63: the market gate
MarketGate ==
    /\ pc = "market"
    /\ \/ Raise("get_clock") /\ UNCHANGED log
       \/ \E clk \in Clocks :
            /\ UNCHANGED << failed, faults >>
            /\ IF is_market_open_now(clk, S.AVOID_NEAR_OPEN_CLOSE_MIN)
               THEN pc' = "window" /\ UNCHANGED log
               ELSE Return("market_closed_or_near_bell")
    /\ UNCHANGED << beside_cycle, S, total_portfolio, feats, invest_scalar, rsp, picks, risk_w, episode_id, targets,
                    positions, last_px, fractionable, orders, submitted_order_ids, broker_orders, cancel_calls,
                    submit_calls >>

\* variant: outside the window the skip is logged but main does not return
WindowGate_NoReturn ==
    /\ pc = "window"
    /\ \E now_min \in NowMinutes, force \in BOOLEAN :
        IF ~force /\ ~within_time_window_et(now_min, S.WINDOWS_ET, S.WINDOW_TOL_MIN)
        THEN pc' = "sync" /\ log' = log \union {"outside_window", "sync_start"}
        ELSE pc' = "sync" /\ log' = log \union {"sync_start"}
    /\ UNCHANGED << beside_cycle, S, total_portfolio, feats, invest_scalar, rsp, picks, risk_w, episode_id, targets,
                    positions, last_px, fractionable, orders, submitted_order_ids, broker_orders, cancel_calls,
                    submit_calls, failed, faults >>

\* lines 66-69: the time-window gate (force is main's parameter, read here only)
WindowGate ==
    /\ pc = "window"
    /\ \E now_min \in NowMinutes, force \in BOOLEAN :
        IF ~force /\ ~within_time_window_et(now_min, S.WINDOWS_ET, S.WINDOW_TOL_MIN)
        THEN Return("outside_window")
        ELSE pc' = "sync" /\ log' = log \union {"sync_start"}
    /\ UNCHANGED << beside_cycle, S, total_portfolio, feats, invest_scalar, rsp, picks, risk_w, episode_id, targets,
                    positions, last_px, fractionable, orders, submitted_order_ids, broker_orders, cancel_calls,
                    submit_calls, failed, faults >>

\* lines 74-100: the account sync, every exception caught
SyncAccount ==
    /\ pc = "sync"
    /\ \/ /\ Caught
          /\ Return("alpaca_sync_failed")
          /\ UNCHANGED << total_portfolio, failed >>
       \/ \E acct \in Accounts :
            LET tp0 == equity_fallback(acct)
                tp == IF REq(tp0, Zero) /\ RLt(Zero, acct.cash) THEN acct.cash ELSE tp0
                equity == RMax(Zero, RSub(tp, acct.cash))
            IN  /\ UNCHANGED << failed, faults >>
                /\ IF RLe(equity, Zero) /\ RLe(acct.cash, Zero)
                   THEN Return("sync_failed") /\ UNCHANGED total_portfolio
                   ELSE /\ pc' = "bars"
                        /\ log' = log \union {"sync_success"}
                        /\ total_portfolio' = tp
    /\ UNCHANGED << beside_cycle, S, feats, invest_scalar, rsp, picks, risk_w, episode_id, targets,
                    positions, last_px, fractionable, orders, submitted_order_ids, broker_orders, cancel_calls,
                    submit_calls >>

\* lines 102-104: the daily bars
GetBars ==
    /\ pc = "bars"
    /\ \/ Raise("get_bars") /\ UNCHANGED log
       \/ \E empty \in BOOLEAN :
            /\ UNCHANGED << failed, faults >>
            /\ IF empty THEN Return("no_bars") ELSE pc' = "features" /\ UNCHANGED log
    /\ UNCHANGED << beside_cycle, S, total_portfolio, feats, invest_scalar, rsp, picks, risk_w, episode_id, targets,
                    positions, last_px, fractionable, orders, submitted_order_ids, broker_orders, cancel_calls,
                    submit_calls >>

\* lines 106-111: the features and the regime scalar
ComputeFeatures ==
    /\ pc = "features"
    /\ \/ Raise("compute_features") /\ UNCHANGED << feats, invest_scalar >>
       \/ \E panel \in Panels :
            /\ feats' = panel
            /\ invest_scalar' = InvestScalar(panel, S)
            /\ pc' = "regime"
            /\ UNCHANGED << failed, faults >>
    /\ UNCHANGED << beside_cycle, S, total_portfolio, rsp, picks, risk_w, episode_id, targets,
                    positions, last_px, fractionable, orders, submitted_order_ids, broker_orders, cancel_calls,
                    submit_calls, log >>

\* lines 113-129: the SPY intraday price; its exception is swallowed (pass)
\* and spy_price_intraday is only logged, so both outcomes leave the same state
RegimeDetail ==
    /\ pc = "regime"
    /\ \E spy_px_ok \in BOOLEAN :
        /\ log' = log \union {"regime_detail"}
        /\ pc' = "propose"
    /\ UNCHANGED << beside_cycle, faults, S, total_portfolio, feats, invest_scalar, rsp, picks, risk_w, episode_id, targets,
                    positions, last_px, fractionable, orders, submitted_order_ids, broker_orders, cancel_calls,
                    submit_calls, failed >>

\* lines 132-139: the memory context and the allocation proposal, the
\* response text drawn from contents
ChoosePortfolioFrom(contents) ==
    /\ pc = "propose"
    /\ \/ Raise("build_memory_context") /\ UNCHANGED << rsp, picks, log >>
       \/ Raise("responses_create") /\ UNCHANGED << rsp, picks, log >>
       \/ \E content \in contents :
            LET r == choose_portfolio(content, S.MAX_WEIGHT)
            IN  /\ rsp' = [notes |-> r.notes, confidence |-> r.confidence]
                /\ picks' = r.picks
                /\ log' = log \union {"picks_model"} \union (IF r.picks # << >> THEN {"picks_detail"} ELSE {})
                /\ pc' = "blend"
                /\ UNCHANGED << failed, faults >>
    /\ UNCHANGED << beside_cycle, S, total_portfolio, feats, invest_scalar, risk_w, episode_id, targets,
                    positions, last_px, fractionable, orders, submitted_order_ids, broker_orders, cancel_calls,
                    submit_calls >>

ChoosePortfolio == ChoosePortfolioFrom(Contents(CycleWeights, MaxPicks))

\* lines 141-158: weighting and gating
Blend ==
    /\ pc = "blend"
    /\ picks' = PostprocessPicks(picks, feats, S)
    /\ risk_w' = IF picks # << >> /\ S.WEIGHTING_POSTPROCESS # "none"
                 THEN risk_weights_for(picks, feats, S.MAX_WEIGHT)
                 ELSE EmptyDict
    /\ pc' = "episode"
    /\ UNCHANGED << beside_cycle, S, total_portfolio, feats, invest_scalar, rsp, episode_id, targets,
                    positions, last_px, fractionable, orders, submitted_order_ids, broker_orders, cancel_calls,
                    submit_calls, log, failed, faults >>

\* lines 160-170: the episode and its picks; every exception caught and
\* logged.  insert_episode raises or returns the id; insert_picks, called
\* when there are picks, raises on their symbols (no symbol is a bigint)
RecordEpisode ==
    /\ pc = "episode"
    /\ \/ /\ Caught
          /\ episode_id' = 0
          /\ log' = log \union {"episode_recording", "episode_log_failed"}
       \/ /\ UNCHANGED faults
          /\ picks # << >>
          /\ insert_picks(<< >>, << [id |-> 1] >>, 1, picks).raised
          /\ episode_id' = 1
          /\ log' = log \union {"episode_recording", "episode_log_failed"}
       \/ /\ UNCHANGED faults
          /\ picks = << >>
          /\ episode_id' = 1
          /\ log' = log \union {"episode_recording"}
    /\ pc' = "positions"
    /\ UNCHANGED << beside_cycle, S, total_portfolio, feats, invest_scalar, rsp, picks, risk_w, targets,
                    positions, last_px, fractionable, orders, submitted_order_ids, broker_orders, cancel_calls,
                    submit_calls, failed >>

\* variant: a failing get_positions is swallowed and read as no position
TargetsAndTurnover_Swallow ==
    /\ pc = "positions"
    /\ LET investable == RMul(RMax(Zero, RMul(total_portfolio, RSub(One, S.PORTFOLIO_CASH_BUFFER))),
                              invest_scalar)
           tg == Targets(picks, investable)
       IN  /\ targets' = tg
           /\ \/ /\ Caught
                 /\ failed' = "get_positions"
                 /\ positions' = EmptyMap
                 /\ pc' = "prices"
                 /\ UNCHANGED log
              \/ \E pos \in PositionMaps :
                    /\ positions' = pos
                    /\ UNCHANGED << failed, faults >>
                    /\ IF TurnoverGate(pos, tg, S)
                       THEN pc' = "done" /\ log' = log \union {"turnover_limit", "no_orders"}
                       ELSE pc' = "prices" /\ UNCHANGED log
    /\ UNCHANGED << beside_cycle, S, total_portfolio, feats, invest_scalar, rsp, picks, risk_w, episode_id,
                    last_px, fractionable, orders, submitted_order_ids, broker_orders, cancel_calls,
                    submit_calls >>

\* lines 172-192: the targets, the positions and the turnover gate
TargetsAndTurnover ==
    /\ pc = "positions"
    /\ LET investable == RMul(RMax(Zero, RMul(total_portfolio, RSub(One, S.PORTFOLIO_CASH_BUFFER))),
                              invest_scalar)
           tg == Targets(picks, investable)
       IN  /\ targets' = tg
           /\ \/ Raise("get_positions") /\ UNCHANGED << positions, log >>
              \/ \E pos \in PositionMaps :
                    /\ positions' = pos
                    /\ UNCHANGED << failed, faults >>
                    /\ IF TurnoverGate(pos, tg, S)
                       THEN pc' = "done" /\ log' = log \union {"turnover_limit", "no_orders"}
                       ELSE pc' = "prices" /\ UNCHANGED log
    /\ UNCHANGED << beside_cycle, S, total_portfolio, feats, invest_scalar, rsp, picks, risk_w, episode_id,
                    last_px, fractionable, orders, submitted_order_ids, broker_orders, cancel_calls,
                    submit_calls >>

\* lines 194-202: the price map; the intraday failure is caught and logged
PriceMap ==
    /\ pc = "prices"
    /\ LET panel_px == [sym \in DOMAIN feats |-> feats[sym].last]
           universe_for_px == SeqRange(targets.keys) \union DOMAIN positions
       IN  \/ /\ ~S.USE_INTRADAY
              /\ last_px' = panel_px
              /\ UNCHANGED << log, faults >>
           \/ /\ S.USE_INTRADAY
              /\ Caught
              /\ last_px' = panel_px
              /\ log' = log \union {"intraday_price_fetch_failed"}
           \/ /\ S.USE_INTRADAY
              /\ \E live_px \in PriceMaps :
                    /\ DOMAIN live_px \in {{}, universe_for_px}
                    /\ last_px' = [sym \in DOMAIN panel_px \union DOMAIN live_px |->
                                     IF sym \in DOMAIN live_px THEN live_px[sym] ELSE panel_px[sym]]
              /\ UNCHANGED << log, faults >>
    /\ pc' = "orders"
    /\ UNCHANGED << beside_cycle, S, total_portfolio, feats, invest_scalar, rsp, picks, risk_w, episode_id, targets,
                    positions, fractionable, orders, submitted_order_ids, broker_orders, cancel_calls,
                    submit_calls, failed >>

\* variant: the order loop also visits the held symbols without a target,
\* and a cycle without picks goes on to its orders
BuildOrders_Liquidate ==
    /\ pc = "orders"
    /\ \/ Raise("list_fractionable") /\ UNCHANGED << fractionable, orders, log >>
       \/ \E frac \in SUBSET (SeqRange(targets.keys) \union DOMAIN positions) :
            LET held == SetToSeq(DOMAIN positions \ SeqRange(targets.keys))
                ods == BuildOrderList(OrderLoopSymbols(targets, positions) \o held, targets,
                                      positions, last_px, frac, S)
            IN  /\ orders' = ods
                /\ fractionable' = frac
                /\ UNCHANGED << failed, faults >>
                /\ IF ods = << >> THEN Return("no_orders")
                   ELSE pc' = "cancel" /\ UNCHANGED log
    /\ UNCHANGED << beside_cycle, S, total_portfolio, feats, invest_scalar, rsp, picks, risk_w, episode_id, targets,
                    positions, last_px, submitted_order_ids, broker_orders, cancel_calls,
                    submit_calls >>

\* lines 204-227: the order list and the two returns without orders
BuildOrders ==
    /\ pc = "orders"
    /\ \/ Raise("list_fractionable") /\ UNCHANGED << fractionable, orders, log >>
       \/ \E frac \in SUBSET (SeqRange(targets.keys) \union DOMAIN positions) :
            LET ods == BuildOrderList(OrderLoopSymbols(targets, positions), targets, positions,
                                      last_px, frac, S)
            IN  /\ orders' = ods
                /\ fractionable' = frac
                /\ UNCHANGED << failed, faults >>
                /\ IF picks = << >> THEN Return("no_new_positions")
                   ELSE IF ods = << >> THEN Return("no_orders")
                   ELSE pc' = "cancel" /\ UNCHANGED log
    /\ UNCHANGED << beside_cycle, S, total_portfolio, feats, invest_scalar, rsp, picks, risk_w, episode_id, targets,
                    positions, last_px, submitted_order_ids, broker_orders, cancel_calls,
                    submit_calls >>

\* the orders of seq at the indices in keep
RECURSIVE KeepAt(_, _, _)
KeepAt(seq, keep, i) ==
    IF i > Len(seq) THEN << >>
    ELSE (IF i \in keep THEN << seq[i] >> ELSE << >>) \o KeepAt(seq, keep, i + 1)

\* variant: the submission loop starts without the call of cancel_all_orders
CancelAll_Skipped ==
    /\ pc = "cancel"
    /\ IF S.DRY_RUN THEN Return("dry_run_only") ELSE pc' = "submit" /\ UNCHANGED log
    /\ UNCHANGED << beside_cycle, S, total_portfolio, feats, invest_scalar, rsp, picks, risk_w, episode_id, targets,
                    positions, last_px, fractionable, orders, submitted_order_ids, submit_calls,
                    broker_orders, cancel_calls, failed, faults >>

\* lines 229-233: cancel_all_orders (a failing single cancel is printed and
\* skipped), then the DRY_RUN return
CancelAll ==
    /\ pc = "cancel"
    /\ cancel_calls' = cancel_calls + 1
    /\ \/ Raise("cancel_all_orders") /\ UNCHANGED << broker_orders, log >>
       \/ \E not_canceled \in SUBSET (DOMAIN broker_orders) :
            /\ IF not_canceled = {}
               THEN UNCHANGED faults
               ELSE faults + Cardinality(not_canceled) <= MaxFaults
                    /\ faults' = faults + Cardinality(not_canceled)
            /\ broker_orders' = KeepAt(broker_orders, not_canceled, 1)
            /\ UNCHANGED failed
            /\ IF S.DRY_RUN THEN Return("dry_run_only") ELSE pc' = "submit" /\ UNCHANGED log
    /\ UNCHANGED << beside_cycle, S, total_portfolio, feats, invest_scalar, rsp, picks, risk_w, episode_id, targets,
                    positions, last_px, fractionable, orders, submitted_order_ids, submit_calls >>

\* lines 236-247: one pass of the submission loop
SubmitOrder ==
    /\ pc = "submit"
    /\ LET i == Len(submitted_order_ids) + 1
           od == orders[i]
       IN  /\ submit_calls' = submit_calls + 1
           /\ \/ Raise("submit_order") /\ UNCHANGED << broker_orders, submitted_order_ids, log >>
              \/ /\ broker_orders' = Append(broker_orders,
                                            [symbol |-> od.symbol, side |-> od.side, kind |-> od.kind,
                                             amount |-> OrderRequest(od).amount, origin |-> "cycle"])
                 /\ submitted_order_ids' = Append(submitted_order_ids, i)
                 /\ UNCHANGED failed
                 /\ \/ /\ episode_id # 0
                       /\ Caught
                       /\ log' = log \union {"order_log_failed", "submitted"}
                    \/ /\ UNCHANGED faults
                       /\ log' = log \union {"submitted"}
                 /\ pc' = IF i = Len(orders) THEN "reconcile" ELSE "submit"
    /\ UNCHANGED << beside_cycle, S, total_portfolio, feats, invest_scalar, rsp, picks, risk_w, episode_id, targets,
                    positions, last_px, fractionable, orders, cancel_calls >>

\* variant: the except clause of the reconciliation logs and re-raises
Reconcile_Reraise ==
    /\ pc = "reconcile"
    /\ \/ /\ Raise("reconcile_orders")
          /\ log' = log \union {"reconciliation_start", "reconciliation_failed"}
       \/ /\ UNCHANGED << faults, failed >>
          /\ log' = log \union {"reconciliation_start", "reconciliation_complete", "orders_submitted"}
          /\ pc' = "done"
    /\ UNCHANGED << beside_cycle, S, total_portfolio, feats, invest_scalar, rsp, picks, risk_w, episode_id, targets,
                    positions, last_px, fractionable, orders, submitted_order_ids, broker_orders, cancel_calls,
                    submit_calls >>

\* lines 249-292: the reconciliation, every exception caught and logged
\* (src/alpaca_client.py defines no reconcile_orders: there the import raises)
Reconcile ==
    /\ pc = "reconcile"
    /\ \/ /\ Caught
          /\ log' = log \union {"reconciliation_start", "reconciliation_failed", "orders_submitted"}
       \/ /\ UNCHANGED faults
          /\ log' = log \union {"reconciliation_start", "reconciliation_complete", "orders_submitted"}
    /\ pc' = "done"
    /\ UNCHANGED << beside_cycle, S, total_portfolio, feats, invest_scalar, rsp, picks, risk_w, episode_id, targets,
                    positions, last_px, fractionable, orders, submitted_order_ids, broker_orders, cancel_calls,
                    submit_calls, failed >>

Next ==
    \/ GetSettings
    \/ MarketGate
    \/ WindowGate
    \/ SyncAccount
    \/ GetBars
    \/ ComputeFeatures
    \/ RegimeDetail
    \/ ChoosePortfolio
    \/ Blend
    \/ RecordEpisode
    \/ TargetsAndTurnover
    \/ PriceMap
    \/ BuildOrders
    \/ CancelAll
    \/ SubmitOrder
    \/ Reconcile

Spec == Init /\ [][Next]_vars

(***************************************************************************)
(* The weight pipeline of lines 132-158 taken alone, on wider inputs: the  *)
(* cycle stands at line 132 with any settings and any scored panel.        *)
(***************************************************************************)
WideSettingsSet ==
    { st \in [ ENABLED_ : {TRUE},
               MAX_WEIGHT : {Rat(1, 5), Rat(1, 2), Rat(3, 5), One},
               AI_WEIGHT : {Zero, Rat(1, 2), One},
               WEIGHTING_POSTPROCESS : {"vol_target", "none"},
               DRY_RUN : {FALSE},
               USE_INTRADAY : {FALSE},
               REGIME_FILTER : {TRUE},
               RISK_OFF_SCALAR : {Rat(1, 2)},
               TARGET_POSITIONS : {1, 2},
               TURNOVER_LIMIT : {Rat(1, 4)},
               MIN_ORDER_NOTIONAL : {RInt(5)},
               PORTFOLIO_CASH_BUFFER : {Zero},
               WINDOWS_ET : {<< 710, 875 >>},
               WINDOW_TOL_MIN : {30},
               AVOID_NEAR_OPEN_CLOSE_MIN : {10},
               MACRO_DATES : {{}} ] :
        /\ st.WEIGHTING_POSTPROCESS = "none" => st.AI_WEIGHT = Rat(1, 2)
        /\ st.TARGET_POSITIONS = 1 =>
              st.WEIGHTING_POSTPROCESS = "none" /\ st.MAX_WEIGHT = Rat(3, 5) }

InitWeights ==
    /\ BesideIdle
    /\ pc = "propose"
    /\ S \in WideSettingsSet
    /\ total_portfolio = RInt(1000)
    /\ feats \in WidePanels
    /\ invest_scalar = InvestScalar(feats, S)
    /\ rsp = NoRsp
    /\ picks = << >>
    /\ risk_w = EmptyDict
    /\ episode_id = 0
    /\ targets = EmptyDict
    /\ positions = EmptyMap
    /\ last_px = EmptyMap
    /\ fractionable = {}
    /\ orders = << >>
    /\ submitted_order_ids = << >>
    /\ broker_orders = Repeat(StaleOrder, MaxStale)
    /\ cancel_calls = 0
    /\ submit_calls = 0
    /\ log = {"run_start", "sync_start", "sync_success", "regime_detail"}
    /\ failed = ""
    /\ faults = 0

ChoosePortfolioWide == ChoosePortfolioFrom(Contents(PropWeights, MaxPolicyPicks))

NextWeights ==
    \/ ChoosePortfolioWide
    \/ Blend

SpecWeights == InitWeights /\ [][NextWeights]_vars

(***************************************************************************)
(* The weighting of lines 141-158 taken alone: the cycle stands at line    *)
(* 141 with any list of picks (their symbols matter to risk_weights_for,   *)
(* their weights do not), any scored panel and any MAX_WEIGHT.             *)
(***************************************************************************)
\* longest list of picks handed to risk_weights_for
MaxRiskPicks == 3

InitRisk ==
    /\ BesideIdle
    /\ pc = "blend"
    /\ S \in { st \in WideSettingsSet : st.TARGET_POSITIONS = 2 }
    /\ total_portfolio = RInt(1000)
    /\ feats \in WidePanels
    /\ invest_scalar = InvestScalar(feats, S)
    /\ rsp = [notes |-> "", confidence |-> Rat(1, 2)]
    /\ picks \in SeqsUpTo(PickSet({Rat(1, 5)}), MaxRiskPicks)
    /\ risk_w = EmptyDict
    /\ episode_id = 0
    /\ targets = EmptyDict
    /\ positions = EmptyMap
    /\ last_px = EmptyMap
    /\ fractionable = {}
    /\ orders = << >>
    /\ submitted_order_ids = << >>
    /\ broker_orders = Repeat(StaleOrder, MaxStale)
    /\ cancel_calls = 0
    /\ submit_calls = 0
    /\ log = {"run_start", "sync_start", "sync_success", "regime_detail", "picks_model"}
             \union (IF picks # << >> THEN {"picks_detail"} ELSE {})
    /\ failed = ""
    /\ faults = 0

NextRisk == Blend

SpecRisk == InitRisk /\ [][NextRisk]_vars

(***************************************************************************)
(* The order loop of lines 204-227 taken alone: the cycle stands at line   *)
(* 204 with targets at, just under and well over the dust threshold, with  *)
(* positions the turnover gate lets pass and with the panel's prices.      *)
(***************************************************************************)
\* weights whose targets on 1000 are 4.99, 5 and 105
OrderWeights == {Rat(499, 100000), Rat(5, 1000), Rat(105, 1000)}

\* picks of one or two different symbols
OrderPicks ==
    { q \in SeqsUpTo(PickSet(OrderWeights), Cardinality(Symbols)) :
        q # << >> /\ \A i, j \in DOMAIN q : i # j => q[i].symbol # q[j].symbol }

OrderPosRows == { [qty |-> RInt(2), market_value |-> RInt(100)],
                  [qty |-> RInt(1), market_value |-> RInt(10)] }

OrderPositionMaps == UNION { [D -> OrderPosRows] : D \in SUBSET Symbols }

InitOrders ==
    /\ BesideIdle
    /\ pc = "orders"
    /\ S \in { st \in WideSettingsSet :
                 /\ st.WEIGHTING_POSTPROCESS = "none"
                 /\ st.MAX_WEIGHT = Rat(3, 5)
                 /\ st.TARGET_POSITIONS = 2 }
    /\ feats \in WidePanels
    /\ invest_scalar = InvestScalar(feats, S)
    /\ total_portfolio = RDiv(RInt(1000), invest_scalar)
    /\ rsp = [notes |-> "", confidence |-> Rat(1, 2)]
    /\ picks \in OrderPicks
    /\ risk_w = EmptyDict
    /\ episode_id = 1
    /\ targets = Targets(picks, RInt(1000))
    /\ positions \in { pos \in OrderPositionMaps : ~TurnoverGate(pos, targets, S) }
    /\ last_px = [sym \in DOMAIN feats |-> feats[sym].last]
    /\ fractionable = {}
    /\ orders = << >>
    /\ submitted_order_ids = << >>
    /\ broker_orders = Repeat(StaleOrder, MaxStale)
    /\ cancel_calls = 0
    /\ submit_calls = 0
    /\ log = {"run_start", "sync_start", "sync_success", "regime_detail", "picks_model",
              "picks_detail", "episode_recording"}
    /\ failed = ""
    /\ faults = 0

NextOrders == BuildOrders

SpecOrders == InitOrders /\ [][NextOrders]_vars

(***************************************************************************)
(* risk_weights_for on three picks: the cycle stands at line 141 with a    *)
(* panel of three symbols whose affinities score / vol are 0, 3/10 or 1/2. *)
(***************************************************************************)
GreedySymbols == {"SPY", "XLK", "QQQ"}

GreedyRows ==
    { [score |-> sc, vol20_annual |-> One, trend |-> Rat(1, 20), last |-> RInt(50)] :
        sc \in {Zero, Rat(3, 10), Rat(1, 2)} }

GreedyPanels == [GreedySymbols -> GreedyRows]

\* the MAX_WEIGHT of the three-pick weighting
GreedyMaxWeights == {Rat(2, 5), Rat(1, 2), One}

GreedySettingsSet ==
    { [st EXCEPT !.MAX_WEIGHT = mw] :
        st \in { x \in WideSettingsSet : /\ x.WEIGHTING_POSTPROCESS = "vol_target"
                                          /\ x.AI_WEIGHT = Rat(1, 2)
                                          /\ x.TARGET_POSITIONS = 2
                                          /\ x.MAX_WEIGHT = One },
        mw \in GreedyMaxWeights }

\* lists of one to three picks of distinct symbols
GreedyPicks ==
    { q \in SeqsUpTo([symbol : GreedySymbols, weight : {Rat(1, 5)}], MaxRiskPicks) :
        /\ q # << >>
        /\ \A i, j \in DOMAIN q : i # j => q[i].symbol # q[j].symbol }

InitGreedy ==
    /\ BesideIdle
    /\ pc = "blend"
    /\ S \in GreedySettingsSet
    /\ total_portfolio = RInt(1000)
    /\ feats \in GreedyPanels
    /\ invest_scalar = InvestScalar(feats, S)
    /\ rsp = [notes |-> "", confidence |-> Rat(1, 2)]
    /\ picks \in GreedyPicks
    /\ risk_w = EmptyDict
    /\ episode_id = 0
    /\ targets = EmptyDict
    /\ positions = EmptyMap
    /\ last_px = EmptyMap
    /\ fractionable = {}
    /\ orders = << >>
    /\ submitted_order_ids = << >>
    /\ broker_orders = Repeat(StaleOrder, MaxStale)
    /\ cancel_calls = 0
    /\ submit_calls = 0
    /\ log = {"run_start", "sync_start", "sync_success", "regime_detail", "picks_model",
              "picks_detail"}
    /\ failed = ""
    /\ faults = 0

NextGreedy == Blend

SpecGreedy == InitGreedy /\ [][NextGreedy]_vars

(***************************************************************************)
(* memory.py: the episodes table and the recap of the recent episodes.     *)
(* A timestamp is a count of seconds; table rows keep their insertion      *)
(* order, which is not their time order.                                   *)
(***************************************************************************)
SecondsPerDay == 24 * 60 * 60

\* strftime("%Y-%m-%d %H:%M"): the date, the hour and the minute of a
\* timestamp, its seconds dropped
StrftimeYmdHM(asof) ==
    [date |-> asof \div SecondsPerDay,
     hh   |-> (asof % SecondsPerDay) \div 3600,
     mm   |-> (asof % 3600) \div 60]

\* trader.py line 165: the tag of the half of the day
WindowTag(asof) == IF (asof % SecondsPerDay) \div 3600 < 12 THEN "am" ELSE "pm"

\* f"{float(weight):.0%}": the nearest whole percent, a half to the even one
Percent(weight) ==
    LET x == RMul(weight, RInt(100))
        f == RTrunc(x)
        r == RSub(x, RInt(f))
    IN  IF RLt(r, Rat(1, 2)) THEN f
        ELSE IF RLt(Rat(1, 2), r) THEN f + 1
        ELSE IF f % 2 = 0 THEN f ELSE f + 1

\* line 119: SELECT symbol, weight, rationale FROM picks WHERE episode_id = id
PicksOf(ptable, id) ==
    SelectSeq(ptable, LAMBDA row : row.episode_id = id)

\* lines 113-123: ORDER BY asof DESC LIMIT n, each row with its picks; rows
\* of one asof come in any order, so the results are a set
recent_episodes(table, ptable, n) ==
    LET k == IF n < Len(table) THEN n ELSE Len(table)
        chosen == { ix \in [1..k -> DOMAIN table] :
                      /\ \A i, j \in 1..k : i < j =>
                            /\ ix[i] # ix[j]
                            /\ table[ix[i]].asof >= table[ix[j]].asof
                      /\ \A r \in DOMAIN table \ { ix[i] : i \in 1..k } :
                            \A i \in 1..k : table[r].asof <= table[ix[i]].asof }
    IN  { [i \in 1..k |-> [id         |-> table[ix[i]].id,
                           asof       |-> table[ix[i]].asof,
                           window_tag |-> table[ix[i]].window_tag,
                           picks      |-> PicksOf(ptable, table[ix[i]].id)]] : ix \in chosen }

\* line 131: the picks of one episode, a pick without a symbol left out
PicksStr(pks) ==
    LET named == SelectSeq(pks, LAMBDA p : p.symbol # "")
    IN  [i \in 1..Len(named) |-> [symbol |-> named[i].symbol, pct |-> Percent(named[i].weight)]]

\* line 132: one rendered episode
EpisodeLine(e) ==
    [when       |-> StrftimeYmdHM(e.asof),
     window_tag |-> e.window_tag,
     picks_str  |-> IF PicksStr(e.picks) = << >> THEN << "no positions" >> ELSE PicksStr(e.picks)]

\* variant: the rows rendered in the order the query returned them
build_memory_context_AsRead(eps) ==
    IF eps = << >>
    THEN [text |-> "No prior episodes.", lines |-> << >>]
    ELSE [text |-> "Recent episodes", lines |-> [i \in 1..Len(eps) |-> EpisodeLine(eps[i])]]

\* lines 127-134 on the rows eps of recent_episodes(n): the sentinel, or
\* the rows rendered in reverse (eps[::-1])
build_memory_context(eps) ==
    IF eps = << >>
    THEN [text |-> "No prior episodes.", lines |-> << >>]
    ELSE [text |-> "Recent episodes",
          lines |-> [i \in 1..Len(eps) |-> EpisodeLine(eps[Len(eps) + 1 - i])]]

MaxEpisodes == 3

\* timestamps of cycles: two in one minute, one a minute on, one a day on
AsofSet == {129550, 129580, 129605, 215950}

\* the n a caller passes (trader.py line 134 passes 5)
ContextSizes == {1, 2, 5}

\* the picks of a recorded cycle
MemoryPicks ==
    { << [symbol |-> "SPY", weight |-> Rat(3, 5)] >>,
      << [symbol |-> "XLK", weight |-> Rat(1, 4)], [symbol |-> "SPY", weight |-> Rat(1, 2)] >> }

\* lines 64-74: insert_episode appends a row under the next serial id
InsertEpisode ==
    /\ pc = "memory"
    /\ mem_n = 0
    /\ Len(episodes) < MaxEpisodes
    /\ \E asof \in AsofSet :
         episodes' = Append(episodes, [id |-> Len(episodes) + 1, asof |-> asof,
                                       window_tag |-> WindowTag(asof)])
    /\ cycle_picks' = Append(cycle_picks, << >>)
    /\ UNCHANGED << cycle_vars, picks_table, mem_n, memctx, feature_vars, scheduler_vars >>

\* trader.py line 168: insert_picks(episode_id, picks) for the episode just
\* inserted; its exception is caught at line 169
InsertPicks ==
    /\ pc = "memory"
    /\ mem_n = 0
    /\ episodes # << >>
    /\ cycle_picks[Len(episodes)] = << >>
    /\ \E pks \in MemoryPicks :
         /\ cycle_picks' = [cycle_picks EXCEPT ![Len(episodes)] = pks]
         /\ picks_table' = insert_picks(picks_table, episodes, Len(episodes), pks).rows
    /\ UNCHANGED << cycle_vars, episodes, mem_n, memctx, feature_vars, scheduler_vars >>

\* lines 125-134: build_memory_context(n)
BuildMemoryContext ==
    /\ pc = "memory"
    /\ mem_n = 0
    /\ \E n \in ContextSizes :
         \E eps \in recent_episodes(episodes, picks_table, n) :
            /\ mem_n' = n
            /\ memctx' = build_memory_context(eps)
    /\ UNCHANGED << cycle_vars, episodes, picks_table, cycle_picks, feature_vars, scheduler_vars >>

InitMemory == NoCycle("memory") /\ BesideIdle

NextMemory ==
    \/ InsertEpisode
    \/ InsertPicks
    \/ BuildMemoryContext

SpecMemory == InitMemory /\ [][NextMemory]_vars

(***************************************************************************)
(* strategy.py: compute_features on daily bars.  A series stands by its    *)
(* number of bars, its closes finite and positive; a feature stands by     *)
(* whether it is a number or NaN.                                          *)
(***************************************************************************)
\* px.pct_change(k).iloc[-1]: a number when a bar lies k bars before the last
PctChangeLast(len, k) == IF len > k THEN "num" ELSE "nan"

\* px.rolling(w).mean().iloc[-1]: a number when the window is full
RollingMeanLast(len, w) == IF len >= w THEN "num" ELSE "nan"

\* px.pct_change().rolling(w).std().iloc[-1]: the window is full of changes
\* when w + 1 bars exist
RollingStdOfChangesLast(len, w) == IF len >= w + 1 THEN "num" ELSE "nan"

\* an arithmetic result is NaN when an operand is
Arith(operands) == IF "nan" \in operands THEN "nan" ELSE "num"

\* line 30: x if x == x else 0.0
NanToZero(x) == IF x = "nan" THEN "num" ELSE x

\* lines 17-30 and 34: the feature row of one symbol with len bars
FeatureRow(sym, len) ==
    LET ret_21  == PctChangeLast(len, 21)
        ret_63  == PctChangeLast(len, 63)
        vol_20  == RollingStdOfChangesLast(len, 20)
        maxdd   == "num"
        trend   == Arith({RollingMeanLast(len, 20), RollingMeanLast(len, 50)})
        ret_126 == IF len >= 126 THEN PctChangeLast(len, 126) ELSE "nan"
        vol_63  == IF len >= 63 THEN RollingStdOfChangesLast(len, 63) ELSE "nan"
        qual    == IF vol_63 # "nan" THEN Arith({ret_126, vol_63}) ELSE "nan"
        qual126 == NanToZero(qual)
    IN  [symbol |-> sym, ret21 |-> ret_21, ret63 |-> ret_63, vol20_annual |-> vol_20,
         maxdd |-> maxdd, trend |-> trend, last |-> "num", ret126 |-> NanToZero(ret_126),
         vol63_annual |-> NanToZero(vol_63), qual126 |-> qual126,
         score |-> Arith({ret_63, ret_21, trend, qual126, vol_20, maxdd})]

\* dropna keeps the rows without a NaN
HasNaN(row) == \E f \in DOMAIN row : row[f] = "nan"

\* lines 5-36: the rows of the symbols with at least 60 bars, the rows with a
\* NaN dropped; the order by score is any order, the scores being abstract
compute_features(df) ==
    LET symbols == { sym \in DOMAIN df : df[sym] >= 60 }
        kept    == { sym \in symbols : ~HasNaN(FeatureRow(sym, df[sym])) }
    IN  { [i \in 1..Cardinality(kept) |-> FeatureRow(ix[i], df[ix[i]])] :
            ix \in { f \in [1..Cardinality(kept) -> kept] :
                       \A i, j \in 1..Cardinality(kept) : i # j => f[i] # f[j] } }

\* the symbols of the bars
BarSymbols == {"SPY", "XLK", "QQQ"}

\* numbers of daily bars around the thresholds of lines 15, 18, 25 and 26
BarCounts == {59, 60, 63, 64, 126, 127}

\* trader.py lines 103-106: the bars of get_bars handed to compute_features
ScoreBars ==
    /\ pc = "score"
    /\ \E frame \in compute_features(bars) : out' = frame
    /\ pc' = "scored"
    /\ UNCHANGED << S, total_portfolio, feats, invest_scalar, rsp, picks, risk_w, episode_id,
                    targets, positions, last_px, fractionable, orders, submitted_order_ids,
                    broker_orders, cancel_calls, submit_calls, log, failed, faults,
                    memory_vars, bars, scheduler_vars >>

InitFeatures ==
    /\ NoCycle("score")
    /\ episodes = << >>
    /\ picks_table = << >>
    /\ cycle_picks = << >>
    /\ mem_n = 0
    /\ memctx = NoContext
    /\ \E held \in SUBSET BarSymbols : bars \in [held -> BarCounts]
    /\ out = << >>
    /\ eastern = Midnight
    /\ last_run_marker = << >>
    /\ runs = {}
    /\ failed_runs = {}
    /\ sched_event = "start"

NextFeatures == ScoreBars

SpecFeatures == InitFeatures /\ [][NextFeatures]_vars

(***************************************************************************)
(* scheduler.py: the loop that triggers the cycles.  An Eastern time is a  *)
(* date (a day number) with hour, minute and second.  A triggered cycle    *)
(* is followed on its own by Spec; here it is one call that returns or     *)
(* raises.  The status lines of lines 92-116 only print.                   *)
(***************************************************************************)
\* variant: a marker of the clock minute alone
minute_marker_TimeOnly(eastern_dt) == << 0, << eastern_dt.hh, eastern_dt.mm >> >>

\* lines 13-15: (eastern_dt.date(), eastern_dt.strftime("%H:%M"))
minute_marker(eastern_dt) == << eastern_dt.date, << eastern_dt.hh, eastern_dt.mm >> >>

\* the seconds since midnight
SecondOfDay(t) == t.hh * 3600 + t.mm * 60 + t.ss

\* t1 is before t2
Earlier(t1, t2) ==
    \/ t1.date < t2.date
    \/ t1.date = t2.date /\ SecondOfDay(t1) < SecondOfDay(t2)

\* trader.py lines 25-34 on an Eastern time: within tol_min minutes, seconds
\* counted, of a window of the same day
within_time_window_at(t, windows, tol_min) ==
    \E i \in DOMAIN windows : IAbs(SecondOfDay(t) - windows[i] * 60) <= tol_min * 60

MaxSchedDays == 2

\* the times of day of the passes: half a minute before the first window's
\* interval opens (11:20 for 11:50 and 30 minutes), its first minute twice,
\* its second minute
PassClock ==
    { [hh |-> 11, mm |-> 19, ss |-> 30], [hh |-> 11, mm |-> 20, ss |-> 0],
      [hh |-> 11, mm |-> 20, ss |-> 30], [hh |-> 11, mm |-> 21, ss |-> 0] }

PassTimes ==
    { [date |-> d, hh |-> c.hh, mm |-> c.mm, ss |-> c.ss] : d \in 1..MaxSchedDays, c \in PassClock }

\* the settings the loop reads
SchedulerSettings == CHOOSE st \in SettingsSet : st.ENABLED_

\* lines 119 and 136: the pass at t starts after the sleep that ended the
\* pass before it, 60 seconds after an exception of the pass, else 30
AfterSleep(t) ==
    IF sched_event = "scheduler_error"
    THEN \/ eastern.date < t.date
         \/ eastern.date = t.date /\ SecondOfDay(t) - SecondOfDay(eastern) >= 60
    ELSE Earlier(eastern, t)

\* variant: the minute is marked as run only when run_trader returned
SchedulerPass_MarkOnSuccess ==
    /\ pc = "scheduler"
    /\ \E t \in PassTimes, enabled \in BOOLEAN, answered \in BOOLEAN, raised \in BOOLEAN,
          logged \in BOOLEAN :
         LET current_marker == minute_marker(t)
             kept == IF last_run_marker # << >> /\ last_run_marker[1] # current_marker[1]
                     THEN << >>
                     ELSE last_run_marker
             in_window == /\ answered
                          /\ enabled
                          /\ within_time_window_at(t, SchedulerSettings.WINDOWS_ET,
                                                   SchedulerSettings.WINDOW_TOL_MIN)
         IN  /\ AfterSleep(t)
             /\ eastern' = t
             /\ IF current_marker # kept
                THEN IF in_window /\ enabled
                     THEN /\ runs' = runs \union {t}
                          /\ failed_runs' = IF raised THEN failed_runs \union {t} ELSE failed_runs
                          /\ raised \/ logged
                          /\ last_run_marker' = IF raised THEN kept ELSE current_marker
                          /\ sched_event' = IF ~raised THEN "ran"
                                            ELSE IF logged THEN "scheduled_run_failed"
                                            ELSE "scheduler_error"
                     ELSE /\ ~raised /\ logged
                          /\ last_run_marker' = kept
                          /\ sched_event' = "idle"
                          /\ UNCHANGED << runs, failed_runs >>
                ELSE /\ ~raised /\ answered /\ logged
                     /\ last_run_marker' = kept
                     /\ sched_event' = "suppressed"
                     /\ UNCHANGED << runs, failed_runs >>
    /\ UNCHANGED << cycle_vars, memory_vars, feature_vars >>

\* lines 47-119: one pass of the loop at the time t its sleep ended, with
\* ENABLED as read, should_run_now answering (False when it caught an
\* exception), run_trader returning or raising, and the insert_log of the
\* handler of lines 76-85 writing or raising in its turn (then the pass ends
\* in the handler of lines 124-136, line 90 not reached)
SchedulerPass ==
    /\ pc = "scheduler"
    /\ \E t \in PassTimes, enabled \in BOOLEAN, answered \in BOOLEAN, raised \in BOOLEAN,
          logged \in BOOLEAN :
         LET current_marker == minute_marker(t)
             kept == IF last_run_marker # << >> /\ last_run_marker[1] # current_marker[1]
                     THEN << >>
                     ELSE last_run_marker
             in_window == /\ answered
                          /\ enabled
                          /\ within_time_window_at(t, SchedulerSettings.WINDOWS_ET,
                                                   SchedulerSettings.WINDOW_TOL_MIN)
         IN  /\ AfterSleep(t)
             /\ eastern' = t
             /\ IF current_marker # kept
                THEN IF in_window /\ enabled
                     THEN /\ runs' = runs \union {t}
                          /\ failed_runs' = IF raised THEN failed_runs \union {t} ELSE failed_runs
                          /\ raised \/ logged
                          /\ last_run_marker' = IF raised /\ ~logged THEN kept ELSE current_marker
                          /\ sched_event' = IF ~raised THEN "ran"
                                            ELSE IF logged THEN "scheduled_run_failed"
                                            ELSE "scheduler_error"
                     ELSE /\ ~raised /\ logged
                          /\ last_run_marker' = kept
                          /\ sched_event' = "idle"
                          /\ UNCHANGED << runs, failed_runs >>
                ELSE /\ ~raised /\ answered /\ logged
                     /\ last_run_marker' = kept
                     /\ sched_event' = "suppressed"
                     /\ UNCHANGED << runs, failed_runs >>
    /\ UNCHANGED << cycle_vars, memory_vars, feature_vars >>

\* lines 124-136: an exception of the pass itself (get_settings of line 56)
\* is logged and the loop goes on after a longer sleep
SchedulerError ==
    /\ pc = "scheduler"
    /\ \E t \in PassTimes :
         /\ AfterSleep(t)
         /\ eastern' = t
    /\ sched_event' = "scheduler_error"
    /\ UNCHANGED << cycle_vars, memory_vars, feature_vars, last_run_marker, runs, failed_runs >>

InitScheduler == NoCycle("scheduler") /\ BesideIdle

NextScheduler ==
    \/ SchedulerPass
    \/ SchedulerError

SpecScheduler == InitScheduler /\ [][NextScheduler]_vars

(***************************************************************************)
(* Properties.                                                             *)
(***************************************************************************)
\* main has returned or an exception has left it
Ended == pc \in {"done", "raised"}

\* no cancel_all_orders, no submission, the broker's orders as they were
BrokerUntouched ==
    /\ cancel_calls = 0
    /\ submit_calls = 0
    /\ submitted_order_ids = << >>
    /\ broker_orders = Repeat(StaleOrder, MaxStale)

\* the weight line 174 multiplies by investable for each symbol of picks
TargetWeights ==
    [sym \in SeqRange(PickSymbols(picks)) |-> LastWeight(picks, sym)]

\* C1: the weights the targets are computed from (the picks after lines
\* 141-158, blended or not) are each in [0, MAX_WEIGHT] and sum to at most 1
C1_TargetWeightsBounded ==
    pc = "episode" =>
        /\ \A sym \in DOMAIN TargetWeights :
              RLe(Zero, TargetWeights[sym]) /\ RLe(TargetWeights[sym], S.MAX_WEIGHT)
        /\ RLe(RSumOver(TargetWeights, SetToSeq(DOMAIN TargetWeights)), One)

\* C2, as the spec states it: once the positions are read the turnover gate
\* has fired exactly when the sum of |target - market value| over the union
\* exceeds TURNOVER_LIMIT times the invested value
C2_GateIffOverLimit ==
    (pc = "prices" \/ (pc = "done" /\ "turnover_limit" \in log)) =>
        ("turnover_limit" \in log
            <=> RLt(RMul(S.TURNOVER_LIMIT, CurInvested(positions)), EstTurnover(positions, targets)))

\* C2, as the code has it: the gate fires exactly when the invested value
\* exceeds twice MIN_ORDER_NOTIONAL and the turnover exceeds TURNOVER_LIMIT
\* times the invested value; then the cycle has ended with turnover_limit
\* and nothing canceled or submitted; otherwise (equality included) the
\* cycle goes on to the order list
C2_GateIffOverLimitAndInvested ==
    (pc = "prices" \/ (pc = "done" /\ "turnover_limit" \in log)) =>
        LET cur == CurInvested(positions)
            over == /\ RLt(RMul(RInt(2), S.MIN_ORDER_NOTIONAL), cur)
                    /\ RLt(RMul(S.TURNOVER_LIMIT, cur), EstTurnover(positions, targets))
        IN  /\ "turnover_limit" \in log <=> over
            /\ over => pc = "done" /\ BrokerUntouched /\ orders = << >>
            /\ ~over => pc = "prices"

\* the gate has fired on a portfolio that is invested
C2_GateFired ==
    /\ pc = "done"
    /\ "turnover_limit" \in log
    /\ picks # << >>
    /\ BrokerUntouched

\* the symbols held for which no target exists
HeldWithoutTarget == DOMAIN positions \ SeqRange(targets.keys)

\* the order list of lines 204-219 is complete
OrdersBuilt ==
    \/ pc = "cancel"
    \/ pc = "done" /\ "no_orders" \in log /\ "turnover_limit" \notin log

\* C3: when the order list is built, every held symbol without a target
\* whose market value is at least MIN_ORDER_NOTIONAL (and at least one
\* share at its price) has a sell order in the list
C3_HeldWithoutTargetSold ==
    OrdersBuilt =>
        \A sym \in HeldWithoutTarget :
            LET px0 == Get(last_px, sym, Zero)
                px == IF REq(px0, Zero) THEN One ELSE px0
                mv == positions[sym].market_value
            IN  (RLe(S.MIN_ORDER_NOTIONAL, mv) /\ RLe(px, mv)) =>
                    \E i \in DOMAIN orders : orders[i].symbol = sym /\ orders[i].side = "sell"

\* C4: a submission happens only after exactly one call of
\* cancel_all_orders, and that call happens once, before any submission,
\* on an order list that is built and no longer changes
C4_CancelOnceBeforeSubmit ==
    [][ /\ submit_calls' > submit_calls =>
              cancel_calls = 1 /\ cancel_calls' = 1 /\ orders # << >> /\ orders' = orders
        /\ cancel_calls' > cancel_calls =>
              cancel_calls = 0 /\ submit_calls = 0 /\ orders # << >> /\ orders' = orders
        /\ cancel_calls' >= cancel_calls ]_vars

\* every order of the list submitted after the one call of cancel_all_orders
C4_AllSubmitted ==
    /\ cancel_calls = 1
    /\ Len(orders) > 1
    /\ submit_calls = Len(orders)
    /\ Len(submitted_order_ids) = Len(orders)

\* the events main records when a gate fires
GateEvents ==
    {"disabled", "market_closed_or_near_bell", "outside_window", "alpaca_sync_failed",
     "sync_failed", "no_bars"}

\* C5: a cycle in which a gate has fired has returned with the gate's event
\* recorded and has canceled and submitted nothing; ENABLED false always
\* fires the first gate
C5_GateEndsCycle ==
    /\ log \cap GateEvents # {} => pc = "done" /\ BrokerUntouched /\ orders = << >>
    /\ (pc # "settings" /\ ~S.ENABLED_) => "disabled" \in log

\* the cycle was skipped outside its window, after the market gate let it pass
C5_SkippedOutsideWindow ==
    /\ pc = "done"
    /\ "outside_window" \in log
    /\ BrokerUntouched

\* C6: a cycle that has ended after starting its submissions has attempted
\* every order of the list and has returned normally
C6_FailedSubmitDoesNotStopLoop ==
    (Ended /\ submit_calls > 0) => submit_calls = Len(orders) /\ pc = "done"

\* C7: after a failure of the account sync, of get_bars, of
\* compute_features or of get_positions the cycle has ended and nothing
\* was canceled or submitted
C7_ReadFailureEndsCycle ==
    (failed \in {"get_bars", "compute_features", "get_positions"} \/ "alpaca_sync_failed" \in log)
        => Ended /\ BrokerUntouched /\ orders = << >>

\* get_positions raised in a cycle that had targets
C7_PositionsFailed ==
    /\ failed = "get_positions"
    /\ pc = "raised"
    /\ targets.keys # << >>

\* the calls whose exceptions main catches and logs
NonCriticalCalls ==
    {"insert_episode", "insert_picks", "get_intraday_last_prices", "insert_order", "reconcile_orders"}

C9_ValidationFailureNoOrders ==
    rsp.notes = "ValidationError" =>
        /\ picks = << >>
        /\ rsp.confidence = Zero
        /\ BrokerUntouched
        /\ orders = << >>
        /\ pc = "done" => log \cap {"no_new_positions", "turnover_limit"} # {}
        /\ pc = "raised" => failed \in {"get_positions", "list_fractionable"}
        /\ pc \notin {"cancel", "submit", "reconcile"}

\* a cycle whose response failed validation returned at no_new_positions
C9_ValidationFailureReturned ==
    /\ rsp.notes = "ValidationError"
    /\ pc = "done"
    /\ "no_new_positions" \in log
    /\ positions # EmptyMap

\* C10: the picks choose_portfolio returns for a response that passed
\* validation are each in [0, max_weight] and sum to at most 1
C10_ReturnedPicksBounded ==
    (pc = "blend" /\ rsp.notes = "") =>
        /\ \A i \in DOMAIN picks : RLe(Zero, picks[i].weight) /\ RLe(picks[i].weight, S.MAX_WEIGHT)
        /\ RLe(RSumSeq(PickWeights(picks)), One)

\* C11: once the weighting has run, no pick, no target and no order is for
\* a symbol that has no row in the scored feature panel
C11_AbsentPickDropped ==
    /\ pc # "blend" => \A i \in DOMAIN picks : picks[i].symbol \in DOMAIN feats
    /\ \A sym \in SeqRange(targets.keys) : sym \in DOMAIN feats
    /\ \A i \in DOMAIN orders : orders[i].symbol \in DOMAIN feats

\* C12: the picks a cycle takes from choose_portfolio, and so the symbols
\* it computes targets for, are at most TARGET_POSITIONS
C12_AtMostTargetPositions ==
    pc \in {"blend", "episode"} =>
        /\ Len(picks) <= S.TARGET_POSITIONS
        /\ Cardinality(SeqRange(PickSymbols(picks))) <= S.TARGET_POSITIONS

\* the map risk_weights_for returns at line 144 for the cycle's picks
RiskW == risk_weights_for(picks, feats, S.MAX_WEIGHT)

\* the picks that have a row in the panel
PicksInPanel == { i \in DOMAIN picks : picks[i].symbol \in DOMAIN feats }

\* C13: for the picks, the panel and the max_weight of the cycle,
\* risk_weights_for returns weights that are each in [0, max_weight] and
\* sum to at most 1, for picked symbols of the panel only, and the empty
\* map when no pick is in the panel or every affinity is 0; the map the
\* cycle holds after line 144 is within the same bounds
C13_RiskWeightsBounded ==
    /\ pc = "blend" =>
        /\ SeqRange(RiskW.keys) = DOMAIN RiskW.val
        /\ DOMAIN RiskW.val \subseteq { picks[i].symbol : i \in PicksInPanel }
        /\ \A k \in DOMAIN RiskW.val :
              RLe(Zero, RiskW.val[k]) /\ RLe(RiskW.val[k], S.MAX_WEIGHT)
        /\ RLe(RSumOver(RiskW.val, RiskW.keys), One)
        /\ (\A i \in PicksInPanel : REq(RawAffinity(feats[picks[i].symbol]), Zero))
              => RiskW = EmptyDict
    /\ pc = "episode" =>
        /\ DOMAIN risk_w.val \subseteq DOMAIN feats
        /\ \A k \in DOMAIN risk_w.val :
              RLe(Zero, risk_w.val[k]) /\ RLe(risk_w.val[k], S.MAX_WEIGHT)
        /\ RLe(RSumOver(risk_w.val, risk_w.keys), One)

\* line 144 has run on two picks of the panel, both capped at max_weight
C13_BothCapped ==
    /\ pc = "episode"
    /\ Len(risk_w.keys) = 2
    /\ \A k \in DOMAIN risk_w.val : REq(risk_w.val[k], S.MAX_WEIGHT)
    /\ RLt(RSumOver(risk_w.val, risk_w.keys), One)

\* |target - current market value| of sym, as line 209 computes delta
AbsDelta(sym) == RAbs(RSub(Get(targets.val, sym, Zero), MarketValue(positions, sym)))

\* the positions in the order list of the orders for sym
OrdersOf(sym) == { i \in DOMAIN orders : orders[i].symbol = sym }

\* C14: when the order list is built, a target symbol has an order only if
\* |target - market value| is at least MIN_ORDER_NOTIONAL; a delta equal to
\* the threshold passes the filter (the order exists when the symbol is
\* fractionable), a smaller one has no order
C14_DustThreshold ==
    OrdersBuilt =>
        /\ \A i \in DOMAIN orders : RLe(S.MIN_ORDER_NOTIONAL, AbsDelta(orders[i].symbol))
        /\ \A sym \in SeqRange(targets.keys) :
              /\ RLt(AbsDelta(sym), S.MIN_ORDER_NOTIONAL) => OrdersOf(sym) = {}
              /\ (REq(AbsDelta(sym), S.MIN_ORDER_NOTIONAL) /\ sym \in fractionable)
                    => OrdersOf(sym) # {}

\* one target exactly at the threshold with its order, another one cent
\* under it with none
C14_AtAndUnderThreshold ==
    /\ OrdersBuilt
    /\ \E a, b \in SeqRange(targets.keys) :
          /\ REq(AbsDelta(a), S.MIN_ORDER_NOTIONAL)
          /\ OrdersOf(a) # {}
          /\ REq(AbsDelta(b), RSub(S.MIN_ORDER_NOTIONAL, Rat(1, 100)))
          /\ OrdersOf(b) = {}

\* C15: when the order list is built, a fractionable target symbol past the
\* dust filter has exactly one order, a notional order of |delta|; a
\* non-fractionable one with a known price p > 0 has a whole-share order of
\* the q with q*p <= |delta| < (q+1)*p when q >= 1, and no order when q = 0
C15_FloorQuantity ==
    OrdersBuilt =>
        \A sym \in SeqRange(targets.keys) :
            RLe(S.MIN_ORDER_NOTIONAL, AbsDelta(sym)) =>
                /\ Cardinality(OrdersOf(sym)) <= 1
                /\ sym \in fractionable =>
                      \E i \in OrdersOf(sym) :
                          orders[i].kind = "notional" /\ orders[i].amount = AbsDelta(sym)
                /\ (sym \notin fractionable /\ RLt(Zero, Get(last_px, sym, Zero))) =>
                      LET p == last_px[sym]
                      IN  /\ \A i \in OrdersOf(sym) :
                                /\ orders[i].kind = "qty"
                                /\ orders[i].amount.d = 1
                                /\ orders[i].amount.n >= 1
                                /\ RLe(RMul(orders[i].amount, p), AbsDelta(sym))
                                /\ RLt(AbsDelta(sym), RMul(RAdd(orders[i].amount, One), p))
                          /\ RLe(p, AbsDelta(sym)) => OrdersOf(sym) # {}

\* a delta of 105 at price 50 gave a whole-share order of 2
C15_Delta105AtPrice50 ==
    /\ OrdersBuilt
    /\ \E i \in DOMAIN orders :
          /\ orders[i].symbol \notin fractionable
          /\ AbsDelta(orders[i].symbol) = RInt(105)
          /\ Get(last_px, orders[i].symbol, Zero) = RInt(50)
          /\ orders[i].kind = "qty"
          /\ orders[i].amount = RInt(2)

\* C16: when the order list is built, a non-fractionable target symbol
\* whose price is missing from the price map or zero, or whose |delta| is
\* under the price of one share, has no order
C16_UnpricedNoOrder ==
    OrdersBuilt =>
        \A sym \in SeqRange(targets.keys) \ fractionable :
            (REq(Get(last_px, sym, Zero), Zero) \/ RLt(AbsDelta(sym), Get(last_px, sym, Zero)))
                => OrdersOf(sym) = {}

\* C17: in a cycle run on a date listed in MACRO_DATES the cycle
\* short-circuits: no open order is canceled and no order is submitted
C17_MacroDaySkipped ==
    (pc # "settings" /\ Today \in S.MACRO_DATES) => BrokerUntouched

\* the timestamps of the stored episodes, oldest first
AsofAscending(table) ==
    LET perm == CHOOSE ix \in [DOMAIN table -> DOMAIN table] :
                    /\ \A i, j \in DOMAIN table : i # j => ix[i] # ix[j]
                    /\ \A i, j \in DOMAIN table : i < j => table[ix[i]].asof <= table[ix[j]].asof
    IN  [i \in DOMAIN table |-> table[perm[i]].asof]

\* C18: build_memory_context(n) returns the sentinel 'No prior episodes.'
\* when no episode is stored; otherwise it renders the min(n, stored) most
\* recent episodes, the oldest of them first and the newest last
C18_RecapOldestFirst ==
    mem_n > 0 =>
        LET stored == Len(episodes)
            k      == IF mem_n < stored THEN mem_n ELSE stored
        IN  /\ (stored = 0) <=> (memctx.text = "No prior episodes.")
            /\ Len(memctx.lines) = k
            /\ \A i \in 1..k :
                  memctx.lines[i].when = StrftimeYmdHM(AsofAscending(episodes)[stored - k + i])

\* C18 witness: three episodes stored out of time order, the two most recent
\* of them rendered
C18_TwoOfThreeRendered ==
    /\ mem_n = 2
    /\ Len(episodes) = 3
    /\ episodes[1].asof > episodes[2].asof
    /\ episodes[2].asof < episodes[3].asof
    /\ Len(memctx.lines) = 2
    /\ memctx.lines[1].when # memctx.lines[2].when

\* C19: compute_features outputs at most one row per symbol, never a row
\* for a symbol with fewer than 60 bars, and a row for a symbol with 60 or
\* more bars of finite closes (59 bars excluded, 60 bars scored)
C19_SixtyBarsEligible ==
    pc = "scored" =>
        /\ \A i, j \in DOMAIN out : i # j => out[i].symbol # out[j].symbol
        /\ \A sym \in DOMAIN bars :
              (\E i \in DOMAIN out : out[i].symbol = sym) <=> bars[sym] >= 60

\* two Eastern times of one date and one clock minute
SameMinute(t1, t2) == t1.date = t2.date /\ t1.hh = t2.hh /\ t1.mm = t2.mm

\* C20: the markers of two Eastern times are equal exactly when the times
\* have the same date and the same HH:MM; the same clock minute of two days
\* gives an equal time component; and a pass is held back by the last run's
\* marker only when the loop has run in that minute of that day, so a run
\* on day D at minute M does not hold back day D+1 at minute M
C20_MarkerIsDateAndMinute ==
    /\ \A t1, t2 \in runs \union {eastern} :
          /\ (minute_marker(t1) = minute_marker(t2)) <=> SameMinute(t1, t2)
          /\ (t1.hh = t2.hh /\ t1.mm = t2.mm) => minute_marker(t1)[2] = minute_marker(t2)[2]
    /\ sched_event = "suppressed" => \E r \in runs : SameMinute(r, eastern)

\* C20 witness: the loop has run at 11:20 of day 1 and has just run at 11:20
\* of day 2
C20_RanSameMinuteNextDay ==
    /\ sched_event = "ran"
    /\ eastern = [date |-> 2, hh |-> 11, mm |-> 20, ss |-> 0]
    /\ eastern \in runs
    /\ [date |-> 1, hh |-> 11, mm |-> 20, ss |-> 0] \in runs
    /\ minute_marker([date |-> 1, hh |-> 11, mm |-> 20, ss |-> 0]) # minute_marker(eastern)

\* the affinity score / vol of a picked symbol of the panel
Affinity(sym) == RawAffinity(feats[sym])

\* the affinities of the picks, normalised to sum to 1
Share(sym) ==
    RDiv(Affinity(sym),
         RSumOver([k \in DOMAIN risk_w.val |-> Affinity(k)], SetToSeq(DOMAIN risk_w.val)))

\* the budget of 1 less what the picks of a larger share received
RemainingFor(sym) ==
    LET above == { k \in DOMAIN risk_w.val : RLt(Share(sym), Share(k)) }
    IN  RSub(One, RSumOver([k \in above |-> risk_w.val[k]], SetToSeq(above)))

\* C21: in the map of risk_weights_for every pick holds the least of its
\* share, max_weight and the budget left by the picks of a larger share; and
\* three picks of shares 0.5 / 0.3 / 0.3 (affinities 1/2, 3/10, 3/10) under
\* max_weight 0.4 receive 0.4, 0.3 and 0.3
C21_GreedyWaterFill ==
    (pc = "episode" /\ risk_w # EmptyDict) =>
        /\ \A sym \in DOMAIN risk_w.val :
              REq(risk_w.val[sym], RMin(RMin(Share(sym), S.MAX_WEIGHT), RemainingFor(sym)))
        /\ ( /\ Len(picks) = 3
             /\ REq(S.MAX_WEIGHT, Rat(2, 5))
             /\ \E a \in DOMAIN risk_w.val :
                   /\ REq(Affinity(a), Rat(1, 2))
                   /\ \A b \in DOMAIN risk_w.val \ {a} : REq(Affinity(b), Rat(3, 10)) )
           => \A sym \in DOMAIN risk_w.val :
                 REq(risk_w.val[sym], RMin(Affinity(sym), S.MAX_WEIGHT))

SymbolWeights(rows) == [i \in DOMAIN rows |-> << rows[i].symbol, rows[i].weight >>]

\* C23: recent_episodes reads back under every episode the picks that
\* insert_picks was handed for it, and every line of the recap of
\* build_memory_context lists the picks chosen in the cycle of an episode
\* of its minute
C23_PicksReadBack ==
    /\ \A eps \in recent_episodes(episodes, picks_table, MaxEpisodes) :
          \A i \in DOMAIN eps : SymbolWeights(eps[i].picks) = SymbolWeights(cycle_picks[eps[i].id])
    /\ mem_n > 0 =>
          \A i \in DOMAIN memctx.lines :
             \E j \in DOMAIN episodes :
                /\ memctx.lines[i].when = StrftimeYmdHM(episodes[j].asof)
                /\ memctx.lines[i].picks_str =
                      (IF cycle_picks[j] = << >> THEN << "no positions" >> ELSE PicksStr(cycle_picks[j]))

\* C24: when the order list is built, every sell order is for a held
\* symbol and within the holding: a notional sell is at most the symbol's
\* market value, a quantity sell at most the held quantity
C24_SellWithinHolding ==
    OrdersBuilt =>
        \A i \in DOMAIN orders :
            orders[i].side = "sell" =>
                /\ orders[i].symbol \in DOMAIN positions
                /\ orders[i].kind = "notional" =>
                      RLe(orders[i].amount, positions[orders[i].symbol].market_value)
                /\ orders[i].kind = "qty" =>
                      RLe(orders[i].amount, positions[orders[i].symbol].qty)

\* the Eastern time t lies in the tolerance interval of window i
InWindowOf(t, i) ==
    IAbs(SecondOfDay(t) - SchedulerSettings.WINDOWS_ET[i] * 60)
        <= SchedulerSettings.WINDOW_TOL_MIN * 60

\* C25: the loop calls run_trader at most once in the tolerance interval of
\* a window on a day
C25_OneRunPerWindowAndDay ==
    \A r1, r2 \in runs :
        ( /\ r1.date = r2.date
          /\ \E i \in DOMAIN SchedulerSettings.WINDOWS_ET : InWindowOf(r1, i) /\ InWindowOf(r2, i) )
        => r1 = r2

\* C26: while a cycle has no picks (none proposed, or none left by the
\* blending) no open order is canceled and no order is submitted, whatever
\* the positions are
C26_NoPicksNoOrders ==
    (picks = << >> /\ pc \notin {"settings", "propose", "blend"}) => BrokerUntouched

\* C26 witness: a cycle without picks has passed the turnover gate with a
\* held position and has returned at line 221 without touching the broker
C26_NoPicksWithHolding ==
    /\ pc = "done"
    /\ picks = << >>
    /\ "picks_model" \in log
    /\ "no_new_positions" \in log
    /\ positions # EmptyMap
    /\ BrokerUntouched

\* C27: in a cycle with DRY_RUN set the broker's orders stay as they were:
\* no open order is canceled and no order is submitted
C27_DryRunLeavesBroker ==
    (pc # "settings" /\ S.DRY_RUN) => BrokerUntouched

====
